---- MODULE Spec2Model ----
(***************************************************************************)
(* cw-storage: typed accessors (TypedStorage, Singleton and their          *)
(* read-only counterparts) over a raw byte key-value store.                *)
(*                                                                         *)
(* The raw store is a finite map from raw keys (byte sequences) to byte    *)
(* sequences.  Accessor handles borrow the store; they hold at most the    *)
(* key derived at construction and never any stored data.                  *)
(***************************************************************************)
EXTENDS Integers, Sequences, FiniteSets, TLC

(***************************************************************************)
(* Bounds of the model.                                                    *)
(***************************************************************************)
MaxAge == 2          \* ordinary values of T are Data with age 1..MaxAge
MaxHandles == 2      \* read-only accessors alive at the same time
MaxEntries == 2      \* entries the raw store may hold

\* Namespace names, one a prefix of the other, and the keys of a bucket.
Names == {<<1>>, <<1, 1>>}
Keys == {<<>>, <<1>>}

(***************************************************************************)
(* Values of the stored type T.  T is any type with Serialize,             *)
(* DeserializeOwned and NamedType:                                         *)
(*   1..MaxAge    ordinary values (the tests' Data / Config structs);      *)
(*   NullValue    a value of T that the codec writes as its null token     *)
(*                (the None of an optional T, a transparent wrapper of     *)
(*                one);                                                    *)
(*   BadValue     a value of T whose Serialize implementation fails.       *)
(***************************************************************************)
NullValue == 0
BadValue == -1
DataValues == 1..MaxAge
Values == DataValues \cup {NullValue, BadValue}

(***************************************************************************)
(* Result<_> values.  val is a sequence: <<>> for () and for None, <<v>>   *)
(* for a value or Some(v).                                                 *)
(***************************************************************************)
NoErr == [kind |-> "none", msg |-> ""]
Ok(v) == [ok |-> TRUE, val |-> v, err |-> NoErr]
Err(e) == [ok |-> FALSE, val |-> <<>>, err |-> e]

Uninitialized == [kind |-> "ContractErr", msg |-> "uninitialized data"]
ParseErr == [kind |-> "ParseErr", msg |-> "T"]
SerializeErr == [kind |-> "SerializeErr", msg |-> "T"]

(***************************************************************************)
(* The codec (cosmwasm::serde, a JSON codec).  Bytes of values are small   *)
(* integers: NullToken stands for the text null, ObjOpen for the opening   *)
(* of an encoded struct.                                                   *)
(***************************************************************************)
NullToken == 110
ObjOpen == 123

\* to_vec::<T>: the bytes of a value, or the codec's error.
to_vec(data) ==
    IF data = BadValue THEN [ok |-> FALSE, bytes |-> <<>>]
    ELSE IF data = NullValue THEN [ok |-> TRUE, bytes |-> <<NullToken>>]
    ELSE [ok |-> TRUE, bytes |-> <<ObjOpen, data>>]

\* from_slice::<T>: decoding the bytes as a T.
from_slice_T(d) ==
    IF d = <<NullToken>> THEN [ok |-> TRUE, val |-> NullValue]
    ELSE IF Len(d) = 2 /\ d[1] = ObjOpen /\ d[2] \in DataValues
    THEN [ok |-> TRUE, val |-> d[2]]
    ELSE [ok |-> FALSE, val |-> NullValue]

\* from_slice::<Option<T>>: the decode the accessors ask for, their result
\* type being Result<Option<T>>.  The codec reads its null token as None and
\* anything else as Some(T).
from_slice(d) ==
    IF d = <<NullToken>> THEN Ok(<<>>)
    ELSE LET t == from_slice_T(d)
         IN  IF t.ok THEN Ok(<<t.val>>) ELSE Err(ParseErr)

(***************************************************************************)
(* The raw store (cosmwasm::traits::Storage, MockStorage in the tests): a  *)
(* map from raw keys to bytes.  Operations work on the map together with   *)
(* the log of the set calls made on it, [map, sets].                       *)
(***************************************************************************)
Fresh(s) == [map |-> s, sets |-> <<>>]
Storage_get(st, k) == IF k \in DOMAIN st.map THEN <<st.map[k]>> ELSE <<>>
Storage_set(st, k, bz) ==
    [map |-> [x \in DOMAIN st.map \cup {k} |-> IF x = k THEN bz ELSE st.map[x]],
     sets |-> Append(st.sets, <<k, bz>>)]

(***************************************************************************)
(* crate::prefix: the namespace prefix of a name, and the prefixed view of *)
(* a store.  Length-prefixing makes the prefixes of distinct names         *)
(* distinct and none of them a prefix of another.                          *)
(***************************************************************************)
key_prefix(name) == <<Len(name)>> \o name

\* prefixed(name, store): the storage a TypedStorage is opened over.  It holds
\* the prefix of its name.
prefixed(name) == key_prefix(name)

\* S::get and S::set of the storage a TypedStorage holds, on the raw store.
PrefixedStorage_get(st, prefix, key) == Storage_get(st, prefix \o key)
PrefixedStorage_set(st, prefix, key, bz) == Storage_set(st, prefix \o key, bz)

(***************************************************************************)
(* Accessor handles: [kind, name, key].  name is the name the accessor was *)
(* opened with.  key is what the handle holds: the Singleton's key, or the *)
(* prefix held by the storage of a TypedStorage.  A handle holds no stored *)
(* data.                                                                   *)
(***************************************************************************)
MutKinds == {"TypedStorage", "Singleton"}
RoKinds == {"ReadonlyTypedStorage", "ReadonlySingleton"}

TypedStorage_new(name) ==
    [kind |-> "TypedStorage", name |-> name, key |-> prefixed(name)]
ReadonlyTypedStorage_new(name) ==
    [kind |-> "ReadonlyTypedStorage", name |-> name, key |-> prefixed(name)]
\* A faulty Singleton::new: the singleton keeps the bare name as its key.
Singleton_new_BareName(name) ==
    [kind |-> "Singleton", name |-> name, key |-> name]
Singleton_new(name) ==
    [kind |-> "Singleton", name |-> name, key |-> key_prefix(name)]
\* A faulty ReadonlySingleton::new: it keeps the bare name as its key.
ReadonlySingleton_new_BareName(name) ==
    [kind |-> "ReadonlySingleton", name |-> name, key |-> name]
ReadonlySingleton_new(name) ==
    [kind |-> "ReadonlySingleton", name |-> name, key |-> key_prefix(name)]

(***************************************************************************)
(* The transforms handed to update: Fn(T) -> Result<T>.                    *)
(***************************************************************************)
Unauthorized == [kind |-> "Unauthorized", msg |-> ""]
CallerErr == [kind |-> "ContractErr", msg |-> "cuz i feel like it"]
Transforms == {"birthday", "to_null", "to_bad", "fail_contract", "fail_unauthorized"}

Apply(action, input) ==
    CASE action = "birthday" -> Ok(<<IF input \in 1..(MaxAge - 1) THEN input + 1 ELSE 1>>)
      [] action = "to_null" -> Ok(<<NullValue>>)
      [] action = "to_bad" -> Ok(<<BadValue>>)
      [] action = "fail_contract" -> Err(CallerErr)
      [] OTHER -> Err(Unauthorized)

(***************************************************************************)
(* An operation yields its result and the store (with the log of set       *)
(* calls) it leaves.                                                       *)
(***************************************************************************)
Out(res, st) == [res |-> res, st |-> st]

\* ---- TypedStorage ------------------------------------------------------
\* A faulty save: it frames the encoded bytes with their length.
TypedStorage_save_Framed(st, h, key, data) ==
    LET bz == to_vec(data)
    IN  IF ~bz.ok THEN Out(Err(SerializeErr), st)
        ELSE Out(Ok(<<>>), PrefixedStorage_set(st, h.key, key, <<Len(bz.bytes)>> \o bz.bytes))

TypedStorage_save(st, h, key, data) ==
    LET bz == to_vec(data)
    IN  IF ~bz.ok THEN Out(Err(SerializeErr), st)
        ELSE Out(Ok(<<>>), PrefixedStorage_set(st, h.key, key, bz.bytes))

\* A faulty may_load: it fills a missing entry with null bytes.
TypedStorage_may_load_Fill(st, h, key) ==
    LET d == PrefixedStorage_get(st, h.key, key)
    IN  IF d # <<>> THEN Out(from_slice(d[1]), st)
        ELSE Out(Ok(<<>>), PrefixedStorage_set(st, h.key, key, <<NullToken>>))

TypedStorage_may_load(st, h, key) ==
    LET d == PrefixedStorage_get(st, h.key, key)
    IN  IF d # <<>> THEN Out(from_slice(d[1]), st)
        ELSE Out(Ok(<<>>), st)

TypedStorage_load(st, h, key) ==
    LET m == TypedStorage_may_load(st, h, key)
    IN  IF ~m.res.ok THEN m
        ELSE IF m.res.val = <<>> THEN Out(Err(Uninitialized), m.st)
        ELSE m

\* A faulty update: it reports a failed transform as its own error.
TypedStorage_update_OwnError(st, h, key, action) ==
    LET input == TypedStorage_load(st, h, key)
    IN  IF ~input.res.ok THEN input
        ELSE LET output == Apply(action, input.res.val[1])
             IN  IF ~output.ok THEN Out(Err(Uninitialized), input.st)
                 ELSE LET sv == TypedStorage_save(input.st, h, key, output.val[1])
                      IN  IF ~sv.res.ok THEN sv
                          ELSE Out(Ok(output.val), sv.st)

\* A faulty update: it applies the transform to the value stored now, not to
\* the one it loaded.
TypedStorage_update_finish_Reload(st, h, key, action, input) ==
    LET now == TypedStorage_load(st, h, key)
        output == Apply(action, IF now.res.ok THEN now.res.val[1] ELSE input)
    IN  IF ~output.ok THEN Out(output, st)
        ELSE LET sv == TypedStorage_save(st, h, key, output.val[1])
             IN  IF ~sv.res.ok THEN sv
                 ELSE Out(Ok(output.val), sv.st)

\* A faulty update: it writes the loaded value back before the new one.
TypedStorage_update_finish_Twice(st, h, key, action, input) ==
    LET output == Apply(action, input)
    IN  IF ~output.ok THEN Out(output, st)
        ELSE LET bk == TypedStorage_save(st, h, key, input)
                 sv == TypedStorage_save(bk.st, h, key, output.val[1])
             IN  IF ~sv.res.ok THEN sv
                 ELSE Out(Ok(output.val), sv.st)

\* update after its load: the transform, the save and the result
\* (typed.rs lines 78-80), on the store as it is then.
TypedStorage_update_finish(st, h, key, action, input) ==
    LET output == Apply(action, input)
    IN  IF ~output.ok THEN Out(output, st)
        ELSE LET sv == TypedStorage_save(st, h, key, output.val[1])
             IN  IF ~sv.res.ok THEN sv
                 ELSE Out(Ok(output.val), sv.st)

\* A faulty update: undecodable stored bytes are taken for the first value.
TypedStorage_update_Lenient(st, h, key, action) ==
    LET input == TypedStorage_load(st, h, key)
    IN  IF input.res.ok
        THEN TypedStorage_update_finish(input.st, h, key, action, input.res.val[1])
        ELSE IF input.res = Err(ParseErr)
        THEN TypedStorage_update_finish(input.st, h, key, action, 1)
        ELSE input

TypedStorage_update(st, h, key, action) ==
    LET input == TypedStorage_load(st, h, key)
    IN  IF ~input.res.ok THEN input
        ELSE TypedStorage_update_finish(input.st, h, key, action, input.res.val[1])

\* ---- ReadonlyTypedStorage ----------------------------------------------
ReadonlyTypedStorage_may_load(st, h, key) ==
    LET d == PrefixedStorage_get(st, h.key, key)
    IN  IF d # <<>> THEN Out(from_slice(d[1]), st)
        ELSE Out(Ok(<<>>), st)

\* A faulty load: it reports a missing entry as a parse error.
ReadonlyTypedStorage_load_NoneAsParse(st, h, key) ==
    LET m == ReadonlyTypedStorage_may_load(st, h, key)
    IN  IF ~m.res.ok THEN m
        ELSE IF m.res.val = <<>> THEN Out(Err(ParseErr), m.st)
        ELSE m

ReadonlyTypedStorage_load(st, h, key) ==
    LET m == ReadonlyTypedStorage_may_load(st, h, key)
    IN  IF ~m.res.ok THEN m
        ELSE IF m.res.val = <<>> THEN Out(Err(Uninitialized), m.st)
        ELSE m

\* ---- Singleton ---------------------------------------------------------
\* A faulty save: it writes what the failed encoding left before it returns.
Singleton_save_Partial(st, h, data) ==
    LET bz == to_vec(data)
    IN  IF ~bz.ok THEN Out(Err(SerializeErr), Storage_set(st, h.key, bz.bytes))
        ELSE Out(Ok(<<>>), Storage_set(st, h.key, bz.bytes))

Singleton_save(st, h, data) ==
    LET bz == to_vec(data)
    IN  IF ~bz.ok THEN Out(Err(SerializeErr), st)
        ELSE Out(Ok(<<>>), Storage_set(st, h.key, bz.bytes))

Singleton_may_load(st, h) ==
    LET d == Storage_get(st, h.key)
    IN  IF d # <<>> THEN Out(from_slice(d[1]), st)
        ELSE Out(Ok(<<>>), st)

Singleton_load(st, h) ==
    LET m == Singleton_may_load(st, h)
    IN  IF ~m.res.ok THEN m
        ELSE IF m.res.val = <<>> THEN Out(Err(Uninitialized), m.st)
        ELSE m

\* A faulty update: it starts from a default value when nothing is stored.
Singleton_update_Default(st, h, action) ==
    LET input == Singleton_may_load(st, h)
    IN  IF ~input.res.ok THEN input
        ELSE LET output == Apply(action, IF input.res.val = <<>> THEN 1 ELSE input.res.val[1])
             IN  IF ~output.ok THEN Out(output, input.st)
                 ELSE LET sv == Singleton_save(input.st, h, output.val[1])
                      IN  IF ~sv.res.ok THEN sv
                          ELSE Out(Ok(output.val), sv.st)

\* update after its load: the transform, the save and the result
\* (singleton.rs lines 91-93), on the store as it is then.
Singleton_update_finish(st, h, action, input) ==
    LET output == Apply(action, input)
    IN  IF ~output.ok THEN Out(output, st)
        ELSE LET sv == Singleton_save(st, h, output.val[1])
             IN  IF ~sv.res.ok THEN sv
                 ELSE Out(Ok(output.val), sv.st)

Singleton_update(st, h, action) ==
    LET input == Singleton_load(st, h)
    IN  IF ~input.res.ok THEN input
        ELSE Singleton_update_finish(input.st, h, action, input.res.val[1])

\* ---- ReadonlySingleton -------------------------------------------------
\* A faulty may_load: it creates an empty entry when it finds none.
ReadonlySingleton_may_load_Touch(st, h) ==
    LET d == Storage_get(st, h.key)
    IN  IF d # <<>> THEN Out(from_slice(d[1]), st)
        ELSE Out(Ok(<<>>), Storage_set(st, h.key, <<>>))

ReadonlySingleton_may_load(st, h) ==
    LET d == Storage_get(st, h.key)
    IN  IF d # <<>> THEN Out(from_slice(d[1]), st)
        ELSE Out(Ok(<<>>), st)

\* A faulty ReadonlySingleton::load: a missing entry is an empty Ok.
ReadonlySingleton_load_Lax(st, h) == ReadonlySingleton_may_load(st, h)

ReadonlySingleton_load(st, h) ==
    LET m == ReadonlySingleton_may_load(st, h)
    IN  IF ~m.res.ok THEN m
        ELSE IF m.res.val = <<>> THEN Out(Err(Uninitialized), m.st)
        ELSE m

(***************************************************************************)
(* State.                                                                  *)
(*   store    the raw store                                                *)
(*   handles  the accessors alive                                          *)
(*   last     the operation made last: what was called and what it gave    *)
(*   saved    history: for a raw key, the value of the last successful     *)
(*            save or update addressed to it, while no later set call has  *)
(*            touched the key                                              *)
(*   written  history: the raw keys a write was ever addressed to          *)
(*   inv      per independent invocation sharing the raw store: where it   *)
(*            is in an update (between its load and its save)              *)
(***************************************************************************)
VARIABLES store, handles, last, saved, written, inv
vars == <<store, handles, last, saved, written, inv>>

Invocations == {1, 2}

\* The raw key the specification gives for an accessor opened with a name
\* and a key: derive_prefix(name) ++ key (the key of a singleton is empty).
SpecKey(name, key) == key_prefix(name) \o key

NoHandle == [kind |-> "none", name |-> <<>>, key |-> <<>>]
Called(op, h, key, data, action, out) ==
    [op |-> op, h |-> h, key |-> key, data |-> data, action |-> action,
     res |-> out.res, sets |-> out.st.sets]
Quiet == Out(Ok(<<>>), Fresh(<<>>))

SetKeys(sets) == {sets[i][1] : i \in DOMAIN sets}

\* The histories after an operation that made the set calls `sets` and, when
\* wrote holds, was a successful save or update of value v addressed to raw
\* key sk.
SavedAfter(sets, wrote, sk, v) ==
    LET kept == {c \in DOMAIN saved : c \notin SetKeys(sets)}
    IN  [c \in kept \cup (IF wrote THEN {sk} ELSE {}) |->
            IF wrote /\ c = sk THEN v ELSE saved[c]]
WrittenAfter(wrote, sk) ==
    written \cup (IF wrote THEN {sk} ELSE {})

IdleInv ==
    [pc |-> "idle", h |-> NoHandle, key |-> <<>>, action |-> "", input |-> NullValue,
     res |-> Ok(<<>>), dirty |-> FALSE]

Mutating(h) == h.kind \in MutKinds
Fits(map) == Cardinality(DOMAIN map) <= MaxEntries

Init ==
    /\ store = <<>>
    /\ handles = {}
    /\ last = Called("init", NoHandle, <<>>, NullValue, "", Quiet)
    /\ saved = <<>>
    /\ written = {}
    /\ inv = [i \in Invocations |-> IdleInv]

\* ---- construction and drop ----------------------------------------------
\* A faulty construction: every accessor takes the store by a shared borrow.
Open_Shared(h) ==
    /\ h \notin handles
    /\ Cardinality(handles) < MaxHandles
    /\ handles' = handles \cup {h}
    /\ last' = Called("new", h, <<>>, NullValue, "", Quiet)
    /\ UNCHANGED <<store, saved, written, inv>>

\* A mutating accessor takes the store by &mut: nothing else is alive.
Open(h) ==
    /\ IF Mutating(h) THEN handles = {}
       ELSE /\ \A g \in handles : ~Mutating(g)
            /\ h \notin handles
            /\ Cardinality(handles) < MaxHandles
    /\ handles' = handles \cup {h}
    /\ last' = Called("new", h, <<>>, NullValue, "", Quiet)
    /\ UNCHANGED <<store, saved, written, inv>>

TypedNew == \E name \in Names : Open(TypedStorage_new(name))
ReadonlyTypedNew == \E name \in Names : Open(ReadonlyTypedStorage_new(name))
SingletonNew == \E name \in Names : Open(Singleton_new(name))
ReadonlySingletonNew == \E name \in Names : Open(ReadonlySingleton_new(name))

Drop ==
    \E h \in handles :
        /\ handles' = handles \ {h}
        /\ last' = Called("drop", h, <<>>, NullValue, "", Quiet)
        /\ UNCHANGED <<store, saved, written, inv>>

\* ---- operations ---------------------------------------------------------
\* The step of an operation called through h with outcome out.
Step(op, h, key, data, action, out, wrote, v) ==
    /\ Fits(out.st.map)
    /\ store' = out.st.map
    /\ last' = Called(op, h, key, data, action, out)
    /\ saved' = SavedAfter(out.st.sets, wrote, SpecKey(h.name, key), v)
    /\ written' = WrittenAfter(wrote, SpecKey(h.name, key))
    /\ UNCHANGED <<handles, inv>>

Live(kind) == {h \in handles : h.kind = kind}

TypedSave ==
    \E h \in Live("TypedStorage"), key \in Keys, data \in Values :
        LET out == TypedStorage_save(Fresh(store), h, key, data)
        IN  Step("save", h, key, data, "", out, out.res.ok, data)

TypedMayLoad ==
    \E h \in Live("TypedStorage"), key \in Keys :
        LET out == TypedStorage_may_load(Fresh(store), h, key)
        IN  Step("may_load", h, key, NullValue, "", out, FALSE, NullValue)

TypedLoad ==
    \E h \in Live("TypedStorage"), key \in Keys :
        LET out == TypedStorage_load(Fresh(store), h, key)
        IN  Step("load", h, key, NullValue, "", out, FALSE, NullValue)

TypedUpdate ==
    \E h \in Live("TypedStorage"), key \in Keys, action \in Transforms :
        LET out == TypedStorage_update(Fresh(store), h, key, action)
        IN  Step("update", h, key, NullValue, action, out, out.res.ok,
                 IF out.res.ok THEN out.res.val[1] ELSE NullValue)

ReadonlyTypedMayLoad ==
    \E h \in Live("ReadonlyTypedStorage"), key \in Keys :
        LET out == ReadonlyTypedStorage_may_load(Fresh(store), h, key)
        IN  Step("may_load", h, key, NullValue, "", out, FALSE, NullValue)

ReadonlyTypedLoad ==
    \E h \in Live("ReadonlyTypedStorage"), key \in Keys :
        LET out == ReadonlyTypedStorage_load(Fresh(store), h, key)
        IN  Step("load", h, key, NullValue, "", out, FALSE, NullValue)

SingletonSave ==
    \E h \in Live("Singleton"), data \in Values :
        LET out == Singleton_save(Fresh(store), h, data)
        IN  Step("save", h, <<>>, data, "", out, out.res.ok, data)

SingletonMayLoad ==
    \E h \in Live("Singleton") :
        LET out == Singleton_may_load(Fresh(store), h)
        IN  Step("may_load", h, <<>>, NullValue, "", out, FALSE, NullValue)

SingletonLoad ==
    \E h \in Live("Singleton") :
        LET out == Singleton_load(Fresh(store), h)
        IN  Step("load", h, <<>>, NullValue, "", out, FALSE, NullValue)

SingletonUpdate ==
    \E h \in Live("Singleton"), action \in Transforms :
        LET out == Singleton_update(Fresh(store), h, action)
        IN  Step("update", h, <<>>, NullValue, action, out, out.res.ok,
                 IF out.res.ok THEN out.res.val[1] ELSE NullValue)

ReadonlySingletonMayLoad ==
    \E h \in Live("ReadonlySingleton") :
        LET out == ReadonlySingleton_may_load(Fresh(store), h)
        IN  Step("may_load", h, <<>>, NullValue, "", out, FALSE, NullValue)

ReadonlySingletonLoad ==
    \E h \in Live("ReadonlySingleton") :
        LET out == ReadonlySingleton_load(Fresh(store), h)
        IN  Step("load", h, <<>>, NullValue, "", out, FALSE, NullValue)

\* The application writes bytes straight into the raw store (Storage::set),
\* which it can do only while no accessor borrows the store.
RawKeys == {SpecKey(name, key) : name \in Names, key \in Keys}
RawBytes == {<<>>, <<NullToken>>}
RawSet ==
    \E k \in RawKeys, bz \in RawBytes :
        LET out == Out(Ok(<<>>), Storage_set(Fresh(store), k, bz))
        IN  /\ handles = {}
            /\ Fits(out.st.map)
            /\ store' = out.st.map
            /\ last' = Called("raw_set", NoHandle, k, NullValue, "", out)
            /\ saved' = SavedAfter(out.st.sets, FALSE, k, NullValue)
            /\ written' = written \cup {k}
            /\ UNCHANGED <<handles, inv>>

Next ==
    \/ TypedNew \/ ReadonlyTypedNew \/ SingletonNew \/ ReadonlySingletonNew
    \/ Drop
    \/ TypedSave \/ TypedMayLoad \/ TypedLoad \/ TypedUpdate
    \/ ReadonlyTypedMayLoad \/ ReadonlyTypedLoad
    \/ SingletonSave \/ SingletonMayLoad \/ SingletonLoad \/ SingletonUpdate
    \/ ReadonlySingletonMayLoad \/ ReadonlySingletonLoad
    \/ RawSet

Spec == Init /\ [][Next]_vars

(***************************************************************************)
(* Helpers of the properties: the accessors that can be opened, and the    *)
(* reads of an accessor whatever its kind.                                 *)
(***************************************************************************)
AllHandles ==
    UNION {{TypedStorage_new(n), ReadonlyTypedStorage_new(n),
            Singleton_new(n), ReadonlySingleton_new(n)} : n \in Names}
IsSingleton(h) == h.kind \in {"Singleton", "ReadonlySingleton"}
KeysOf(h) == IF IsSingleton(h) THEN {<<>>} ELSE Keys

MayLoadVia(s, h, key) ==
    CASE h.kind = "TypedStorage" -> TypedStorage_may_load(Fresh(s), h, key).res
      [] h.kind = "ReadonlyTypedStorage" -> ReadonlyTypedStorage_may_load(Fresh(s), h, key).res
      [] h.kind = "Singleton" -> Singleton_may_load(Fresh(s), h).res
      [] OTHER -> ReadonlySingleton_may_load(Fresh(s), h).res
LoadVia(s, h, key) ==
    CASE h.kind = "TypedStorage" -> TypedStorage_load(Fresh(s), h, key).res
      [] h.kind = "ReadonlyTypedStorage" -> ReadonlyTypedStorage_load(Fresh(s), h, key).res
      [] h.kind = "Singleton" -> Singleton_load(Fresh(s), h).res
      [] OTHER -> ReadonlySingleton_load(Fresh(s), h).res

IsRead == last.op \in {"load", "may_load"}
LastKey == SpecKey(last.h.name, last.key)

(***************************************************************************)
(* C1 (round trip).  After a successful save(k, v), with no later write to *)
(* k, a load(k) or may_load(k) through a mutating accessor (TypedStorage,  *)
(* Singleton) of that name returns Ok with the value v (Some(v)).          *)
(***************************************************************************)
C1_RoundTrip ==
    (IsRead /\ Mutating(last.h) /\ LastKey \in DOMAIN saved)
        => last.res = Ok(<<saved[LastKey]>>)

(***************************************************************************)
(* C5 (absence).  In every state, for every accessor of the four kinds and *)
(* every key no write was ever addressed to, may_load gives Ok(None) and   *)
(* load fails with the Uninitialized error.                                *)
(***************************************************************************)
C5_Absence ==
    \A h \in AllHandles : \A key \in KeysOf(h) :
        SpecKey(h.name, key) \notin written
            => /\ MayLoadVia(store, h, key) = Ok(<<>>)
               /\ LoadVia(store, h, key) = Err(Uninitialized)

\* A load through a live accessor has just failed with Uninitialized on a key
\* never written, while another key of the store holds an entry.
C5_Witness ==
    /\ last.op = "load"
    /\ last.res = Err(Uninitialized)
    /\ LastKey \notin written
    /\ written # {}

(***************************************************************************)
(* C10 (present but unreadable is not absent).  When bytes are stored at   *)
(* the key and the codec cannot decode them, may_load and load fail with   *)
(* the Deserialization (ParseErr) error; and load fails with Uninitialized *)
(* only when no bytes are stored at the key.                               *)
(***************************************************************************)
C10_UnreadableIsNotAbsent ==
    IsRead =>
        /\ (LastKey \in DOMAIN store /\ ~from_slice_T(store[LastKey]).ok)
               => last.res = Err(ParseErr)
        /\ (last.op = "load" /\ last.res = Err(Uninitialized))
               => LastKey \notin DOMAIN store

(***************************************************************************)
(* C2 (update success).  When key k holds a readable value p and the       *)
(* transform gives Ok(f(p)), f(p) being a value the codec encodes, update  *)
(* returns Ok(f(p)) and a load(k) that follows returns exactly f(p).       *)
(***************************************************************************)
C2_UpdateSuccess ==
    [][ LET pre == LoadVia(store, last'.h, last'.key)
            out == Apply(last'.action, pre.val[1])
        IN  (last'.op = "update" /\ pre.ok /\ out.ok /\ to_vec(out.val[1]).ok)
                => /\ last'.res = Ok(out.val)
                   /\ LoadVia(store', last'.h, last'.key) = Ok(out.val) ]_vars

(***************************************************************************)
(* C3 (update with a failing transform).  When key k holds a readable      *)
(* value p and the transform fails with e, update returns exactly e, makes *)
(* no set call and leaves the whole raw store, and so load(k) = p, as it   *)
(* was.                                                                    *)
(***************************************************************************)
C3_UpdateFailingTransform ==
    [][ LET pre == LoadVia(store, last'.h, last'.key)
            out == Apply(last'.action, pre.val[1])
        IN  (last'.op = "update" /\ pre.ok /\ ~out.ok)
                => /\ last'.res = out
                   /\ last'.sets = <<>>
                   /\ store' = store
                   /\ LoadVia(store', last'.h, last'.key) = pre ]_vars

\* An update whose transform failed with Unauthorized has just returned that
\* error on a key that holds a readable value.
C3_Witness ==
    /\ last.op = "update"
    /\ last.action = "fail_unauthorized"
    /\ last.res = Err(Unauthorized)
    /\ LoadVia(store, last.h, last.key).ok

(***************************************************************************)
(* C4 (update on empty).  An update on a key that holds no bytes fails     *)
(* with Uninitialized whatever the transform, makes no set call and leaves *)
(* the key absent: may_load(k) is still Ok(None).                          *)
(***************************************************************************)
C4_UpdateOnEmpty ==
    [][ (last'.op = "update" /\ SpecKey(last'.h.name, last'.key) \notin DOMAIN store)
            => /\ last'.res = Err(Uninitialized)
               /\ last'.sets = <<>>
               /\ store' = store
               /\ MayLoadVia(store', last'.h, last'.key) = Ok(<<>>) ]_vars

\* An update with a transform that would succeed has just failed with
\* Uninitialized on an absent key of a store that holds other entries.
C4_Witness ==
    /\ last.op = "update"
    /\ last.action = "birthday"
    /\ last.res = Err(Uninitialized)
    /\ LastKey \notin DOMAIN store
    /\ store # <<>>

(***************************************************************************)
(* C6 (namespace isolation).  A save or update through an accessor named A *)
(* leaves the result of may_load unchanged for every accessor of any kind  *)
(* named B # A and every key; so does any sequence of them.                *)
(***************************************************************************)
C6_NamespaceIsolation ==
    [][ last'.op \in {"save", "update"}
            => \A g \in AllHandles : g.name # last'.h.name
                   => \A key \in KeysOf(g) :
                          MayLoadVia(store', g, key) = MayLoadVia(store, g, key) ]_vars

\* A save under one name has just succeeded while another name holds a value.
C6_Witness ==
    /\ last.op = "save"
    /\ last.res.ok
    /\ \E g \in AllHandles : /\ g.name # last.h.name
                             /\ \E key \in KeysOf(g) : MayLoadVia(store, g, key).val # <<>>

(***************************************************************************)
(* C7 (read-only non-mutation).  Every operation of a read-only accessor   *)
(* (new, load, may_load), whatever its result, makes no set call and       *)
(* leaves the raw store unchanged.                                         *)
(***************************************************************************)
C7_ReadonlyNonMutation ==
    [][ (last'.h.kind \in RoKinds /\ last'.op \in {"new", "load", "may_load"})
            => /\ store' = store
               /\ last'.sets = <<>> ]_vars

\* A load through a read-only accessor has just failed on undecodable bytes.
C7_Witness ==
    /\ last.h.kind \in RoKinds
    /\ last.op = "load"
    /\ last.res = Err(ParseErr)

(***************************************************************************)
(* C8 (no hidden caching).  In every state, load and may_load through any  *)
(* accessor that is or could now be opened with a name, mutating or        *)
(* read-only, return the value most recently written under that name and   *)
(* key through any accessor.                                               *)
(***************************************************************************)
C8_NoHiddenCaching ==
    \A g \in AllHandles : \A key \in KeysOf(g) :
        SpecKey(g.name, key) \in DOMAIN saved
            => /\ LoadVia(store, g, key) = Ok(<<saved[SpecKey(g.name, key)]>>)
               /\ MayLoadVia(store, g, key) = Ok(<<saved[SpecKey(g.name, key)]>>)

(***************************************************************************)
(* C9 (persisted layout).  A successful save(key, value) of a bucket       *)
(* opened with a name makes exactly one set call, at the raw key           *)
(* derive_prefix(name) ++ key with the bytes encode(value), and changes no *)
(* other entry; may_load and load of a bucket read that same raw key.      *)
(***************************************************************************)
C9_SaveLayout ==
    LET sk == SpecKey(last'.h.name, last'.key)
        bz == to_vec(last'.data).bytes
    IN  (last'.op = "save" /\ last'.h.kind = "TypedStorage" /\ last'.res.ok)
            => /\ last'.sets = << <<sk, bz>> >>
               /\ DOMAIN store' = DOMAIN store \cup {sk}
               /\ \A c \in DOMAIN store' : store'[c] = IF c = sk THEN bz ELSE store[c]
C9_ReadLayout ==
    (IsRead /\ ~IsSingleton(last.h))
        => IF LastKey \notin DOMAIN store
           THEN last.res = IF last.op = "load" THEN Err(Uninitialized) ELSE Ok(<<>>)
           ELSE \/ last.res = from_slice(store[LastKey])
                \/ last.op = "load" /\ last.res = Err(Uninitialized)
C9_PersistedLayout == [][C9_SaveLayout]_vars /\ []C9_ReadLayout

\* A bucket save at a non-empty key has just succeeded next to another entry.
C9_Witness ==
    /\ last.op = "save"
    /\ last.h.kind = "TypedStorage"
    /\ last.res.ok
    /\ last.key # <<>>
    /\ Cardinality(DOMAIN store) = 2

(***************************************************************************)
(* C12 (handle exclusivity).  In every state a live mutating accessor is   *)
(* the only live accessor, while read-only accessors may be alive          *)
(* together; and an operation made through a mutating accessor, an update  *)
(* with its load and its save included, is made while no other accessor is *)
(* alive.                                                                  *)
(***************************************************************************)
C12_HandleExclusivity ==
    /\ \A h \in handles : Mutating(h) => handles = {h}
    /\ (last.op \in {"save", "update", "load", "may_load"} /\ Mutating(last.h))
           => handles = {last.h}

\* Two read-only accessors are alive together, one has just read, and the
\* store holds what a mutating accessor saved before them.
C12_Witness ==
    /\ Cardinality(handles) = 2
    /\ \A h \in handles : h.kind \in RoKinds
    /\ IsRead /\ last.h \in handles
    /\ saved # <<>>

(***************************************************************************)
(* C13 (save overwrites unconditionally).  A save(k, v) of an encodable v  *)
(* succeeds whatever the entry of k held before (nothing, a readable       *)
(* value, undecodable bytes), and a load(k) right after it returns Ok(v),  *)
(* the value of the last successful save.                                  *)
(***************************************************************************)
C13_SaveOverwrites ==
    [][ (last'.op = "save" /\ to_vec(last'.data).ok)
            => /\ last'.res = Ok(<<>>)
               /\ LoadVia(store', last'.h, last'.key) = Ok(<<last'.data>>) ]_vars

(***************************************************************************)
(* C14 (update on corrupt data).  An update on a key whose stored bytes    *)
(* do not decode fails with the Deserialization error load gives on it,    *)
(* whatever the transform is; it makes no set call and the store, corrupt  *)
(* bytes included, is left as it was.                                      *)
(***************************************************************************)
C14_UpdateOnCorrupt ==
    [][ LET pre == LoadVia(store, last'.h, last'.key)
        IN  (last'.op = "update" /\ pre = Err(ParseErr))
                => /\ last'.res = pre
                   /\ last'.sets = <<>>
                   /\ store' = store ]_vars

\* An update with a transform that fails on its own has just failed with the
\* Deserialization error, on an entry that holds undecodable bytes.
C14_Witness ==
    /\ last.op = "update"
    /\ last.action = "fail_contract"
    /\ last.res = Err(ParseErr)
    /\ LastKey \in DOMAIN store
    /\ ~from_slice(store[LastKey]).ok

(***************************************************************************)
(* C15 (save with a failing codec).  A save of a value that cannot be      *)
(* encoded, and an update whose transform succeeds with a result that      *)
(* cannot be encoded, return the Serialization error; no set call is made  *)
(* and the raw store is unchanged.                                         *)
(***************************************************************************)
C15_SaveFailingCodec ==
    [][ LET pre == LoadVia(store, last'.h, last'.key)
            out == Apply(last'.action, pre.val[1])
        IN  (\/ last'.op = "save" /\ ~to_vec(last'.data).ok
             \/ last'.op = "update" /\ pre.ok /\ out.ok /\ ~to_vec(out.val[1]).ok)
                => /\ last'.res = Err(SerializeErr)
                   /\ last'.sets = <<>>
                   /\ store' = store ]_vars

\* An update of a singleton has just failed with the Serialization error and
\* the entry still decodes to a value.
C15_Witness ==
    /\ last.op = "update"
    /\ last.h.kind = "Singleton"
    /\ last.res = Err(SerializeErr)
    /\ LoadVia(store, last.h, last.key).ok

(***************************************************************************)
(* C16 (a singleton addresses exactly one entry).  Every operation of a    *)
(* Singleton or ReadonlySingleton of name n works on the raw key           *)
(* key_prefix(n) alone: its set calls go to that key, every other raw key  *)
(* holds after the step what it held before, and what a read returns is    *)
(* decided by the entry of that key.                                       *)
(***************************************************************************)
C16_SingletonOneEntry ==
    [][ LET k == key_prefix(last'.h.name)
            may == IF k \in DOMAIN store THEN from_slice(store[k]) ELSE Ok(<<>>)
        IN  (IsSingleton(last'.h) /\ last'.op \in {"save", "update", "load", "may_load"})
                => /\ SetKeys(last'.sets) \subseteq {k}
                   /\ DOMAIN store' \ {k} = DOMAIN store \ {k}
                   /\ \A c \in DOMAIN store \ {k} : store'[c] = store[c]
                   /\ last'.op = "may_load" => last'.res = may
                   /\ last'.op = "load"
                         => last'.res = IF may = Ok(<<>>) THEN Err(Uninitialized) ELSE may ]_vars

\* A singleton has just written its entry while the raw store holds another
\* entry too.
C16_Witness ==
    /\ last.h.kind = "Singleton"
    /\ last.op \in {"save", "update"}
    /\ SetKeys(last.sets) = {key_prefix(last.h.name)}
    /\ DOMAIN store \ {key_prefix(last.h.name)} # {}

(***************************************************************************)
(* C17 (the read-only variants agree with the mutating ones).  In every    *)
(* state, for every name and key, may_load and load of                     *)
(* ReadonlyTypedStorage return what those of TypedStorage return, and      *)
(* those of ReadonlySingleton what those of Singleton return: the same     *)
(* value, the same None, the same error.                                   *)
(***************************************************************************)
C17_ReadonlyAgrees ==
    \A n \in Names :
        /\ \A key \in Keys :
             /\ MayLoadVia(store, ReadonlyTypedStorage_new(n), key)
                    = MayLoadVia(store, TypedStorage_new(n), key)
             /\ LoadVia(store, ReadonlyTypedStorage_new(n), key)
                    = LoadVia(store, TypedStorage_new(n), key)
        /\ MayLoadVia(store, ReadonlySingleton_new(n), <<>>)
               = MayLoadVia(store, Singleton_new(n), <<>>)
        /\ LoadVia(store, ReadonlySingleton_new(n), <<>>)
               = LoadVia(store, Singleton_new(n), <<>>)

\* A read-only accessor has just loaded a value from a store in which another
\* entry is absent to both variants and a third does not decode.
C17_Witness ==
    /\ last.h.kind \in RoKinds
    /\ last.op = "load"
    /\ last.res.ok
    /\ \E h \in AllHandles : \E key \in KeysOf(h) :
           LoadVia(store, h, key) = Err(Uninitialized)
    /\ \E h \in AllHandles : \E key \in KeysOf(h) :
           LoadVia(store, h, key) = Err(ParseErr)

(***************************************************************************)
(* C18 (write frame of the mutating bucket).  A save or an update through  *)
(* a TypedStorage on key k makes at most one set call, addressed to the    *)
(* composite key of k; every other raw key holds after it what it held     *)
(* before, so may_load of every other key k' of the bucket returns what it *)
(* returned before.  And no step ever removes an entry of the raw store.   *)
(***************************************************************************)
C18_WriteFrame ==
    [][ LET h == last'.h
            sk == SpecKey(h.name, last'.key)
        IN  /\ DOMAIN store \subseteq DOMAIN store'
            /\ (h.kind = "TypedStorage" /\ last'.op \in {"save", "update"})
                  => /\ Len(last'.sets) <= 1
                     /\ SetKeys(last'.sets) \subseteq {sk}
                     /\ DOMAIN store' \ {sk} = DOMAIN store \ {sk}
                     /\ \A c \in DOMAIN store \ {sk} : store'[c] = store[c]
                     /\ \A k2 \in Keys \ {last'.key} :
                            MayLoadVia(store', h, k2) = MayLoadVia(store, h, k2) ]_vars

\* An update through a bucket has just written its one entry while another
\* key of the same bucket holds a value.
C18_Witness ==
    /\ last.h.kind = "TypedStorage"
    /\ last.op = "update"
    /\ Len(last.sets) = 1
    /\ \E k2 \in Keys \ {last.key} : MayLoadVia(store, last.h, k2).val # <<>>

(***************************************************************************)
(* C19 (reads through a mutating accessor are pure).  A load or a may_load *)
(* through a TypedStorage or a Singleton makes no set call and leaves the  *)
(* raw store as it was, and a may_load(k) made right after a may_load(k),  *)
(* with no write in between, returns the same result.                      *)
(***************************************************************************)
C19_MutatingReadsPure ==
    [][ (Mutating(last'.h) /\ last'.op \in {"load", "may_load"})
            => /\ last'.sets = <<>>
               /\ store' = store
               /\ last'.op = "may_load"
                     => MayLoadVia(store', last'.h, last'.key) = last'.res ]_vars

\* A may_load through a mutating accessor has just returned a value, and
\* another key of the store is still absent.
C19_Witness ==
    /\ Mutating(last.h)
    /\ last.op = "may_load"
    /\ last.res.ok /\ last.res.val # <<>>
    /\ \E k \in RawKeys : k \notin DOMAIN store

(***************************************************************************)
(* Second specification: independent invocations over one raw store.      *)
(* Each invocation opens its own mutating accessor on the store it was     *)
(* handed, so the borrow rule of one execution context does not order them *)
(* and nothing locks a key.  update is two steps here, as in the code: the *)
(* load (`self.load(key)?`), then the transform and the save.              *)
(***************************************************************************)
\* The invocations work on the bucket and the singleton of one name: the two
\* share the entry of the empty key, and the bucket has a second key.
InvName == <<1>>
InvHandles == {TypedStorage_new(InvName), Singleton_new(InvName)}

InvLoad(h, key) ==
    IF IsSingleton(h) THEN Singleton_load(Fresh(store), h)
    ELSE TypedStorage_load(Fresh(store), h, key)
InvFinish(h, key, action, input) ==
    IF IsSingleton(h) THEN Singleton_update_finish(Fresh(store), h, action, input)
    ELSE TypedStorage_update_finish(Fresh(store), h, key, action, input)
InvWrite(h, key, data) ==
    IF IsSingleton(h) THEN Singleton_save(Fresh(store), h, data)
    ELSE TypedStorage_save(Fresh(store), h, key, data)

\* The invocations between their load and their save whose entry the step of
\* invocation i has just changed read a value that is stale from now on.
Staled(i, map) ==
    [j \in Invocations |->
        IF /\ j # i
           /\ inv[j].pc = "loaded"
           /\ LET sk == SpecKey(inv[j].h.name, inv[j].key)
              IN  sk \in DOMAIN map /\ map[sk] # store[sk]
        THEN [inv[j] EXCEPT !.dirty = TRUE]
        ELSE inv[j]]

\* `let input = self.load(key)?;` of an update.
InvUpdateLoad(i) ==
    \E h \in InvHandles : \E key \in KeysOf(h) : \E action \in Transforms :
        LET ld == InvLoad(h, key)
            call == [IdleInv EXCEPT !.h = h, !.key = key, !.action = action]
        IN  /\ inv[i].pc = "idle"
            /\ inv' = [inv EXCEPT ![i] =
                          IF ld.res.ok
                          THEN [call EXCEPT !.pc = "loaded", !.input = ld.res.val[1]]
                          ELSE [call EXCEPT !.pc = "done", !.res = ld.res]]
            /\ UNCHANGED <<store, handles, last, saved, written>>

\* `let output = action(input)?; self.save(key, &output)?; Ok(output)`.
InvUpdateSave(i) ==
    LET c == inv[i]
        out == InvFinish(c.h, c.key, c.action, c.input)
    IN  /\ c.pc = "loaded"
        /\ Fits(out.st.map)
        /\ store' = out.st.map
        /\ inv' = [Staled(i, out.st.map) EXCEPT ![i] = [c EXCEPT !.pc = "done", !.res = out.res]]
        /\ UNCHANGED <<handles, last, saved, written>>

\* A whole save by an invocation that is not in an update.
InvSave(i) ==
    \E h \in InvHandles : \E key \in KeysOf(h) : \E data \in Values :
        LET out == InvWrite(h, key, data)
        IN  /\ inv[i].pc = "idle"
            /\ Fits(out.st.map)
            /\ store' = out.st.map
            /\ inv' = Staled(i, out.st.map)
            /\ UNCHANGED <<handles, last, saved, written>>

\* The update returns to its caller.
InvReturn(i) ==
    /\ inv[i].pc = "done"
    /\ inv' = [inv EXCEPT ![i] = IdleInv]
    /\ UNCHANGED <<store, handles, last, saved, written>>

NextInv ==
    \E i \in Invocations :
        \/ InvUpdateLoad(i)
        \/ InvUpdateSave(i)
        \/ InvSave(i)
        \/ InvReturn(i)

SpecInv == Init /\ [][NextInv]_vars

(***************************************************************************)
(* C11 (lost update across invocations).  The save step of an update whose *)
(* transform succeeds on the loaded value with an encodable result         *)
(* succeeds whatever the entry holds by then: it returns f(loaded) and the *)
(* entry holds the encoding of f(loaded), so a write another invocation    *)
(* made to the key since the load is overwritten without any error.        *)
(***************************************************************************)
C11_LostUpdate ==
    [][ \A i \in Invocations :
          LET c == inv[i]
              output == Apply(c.action, c.input)
              sk == SpecKey(c.h.name, c.key)
          IN  (c.pc = "loaded" /\ inv'[i].pc = "done"
                 /\ output.ok /\ to_vec(output.val[1]).ok)
                  => /\ inv'[i].res = Ok(output.val)
                     /\ sk \in DOMAIN store'
                     /\ store'[sk] = to_vec(output.val[1]).bytes ]_vars

\* An update has returned Ok although another invocation changed its entry
\* between its load and its save, and the entry holds f(stale value), which
\* is not what f gives on the value the other invocation wrote.
C11_Witness ==
    \E i \in Invocations :
        LET c == inv[i]
            sk == SpecKey(c.h.name, c.key)
        IN  /\ c.pc = "done"
            /\ c.dirty
            /\ c.action = "birthday"
            /\ c.res = Ok(<<c.input + 1>>)
            /\ sk \in DOMAIN store
            /\ store[sk] = to_vec(c.input + 1).bytes

====
